---- MODULE Spec2Model ----
(***************************************************************************)
(* Object-storage reconciliation of mist.api:                              *)
(*   BaseObjectStorageController.list_storage / _list_storage              *)
(*   (src/src/mist/api/clouds/controllers/objectstorage/base.py)           *)
(* together with the task coordinator (PeriodicTaskInfo) it runs under,    *)
(* and the cloud lifecycle of BaseMainController                           *)
(*   (src/src/mist/api/clouds/controllers/main/base.py).                   *)
(*                                                                         *)
(* One reconciliation pass is a process that walks through list_storage:   *)
(*   idle -> guard -> snapshot -> fetch -> loop -> mark -> complete        *)
(*        -> diff -> done            (or -> failed when an exception       *)
(*                                     leaves list_storage)                *)
(***************************************************************************)
EXTENDS Integers, Sequences, FiniteSets, TLC

VARIABLES
    store,      \* the ObjectStorage collection: a set of records
    now,        \* the clock read by datetime.datetime.utcnow()
    task,       \* PeriodicTaskInfo per task key (one per cloud)
    cloudcfg,   \* the Cloud documents: saved or not, and their fields
    pass,       \* per process: the locals of its list_storage call
    machines,   \* the Machine collection
    schedules,  \* the polling schedules
    queue,      \* the tasks queued with apply_async and not yet run
    op          \* how the last call of a lifecycle method ended

\* What list_storage neither reads nor writes.
life == <<machines, schedules, queue, op>>

vars == <<store, now, task, cloudcfg, pass, machines, schedules, queue, op>>

---------------------------------------------------------------------------
(* Bounds of the model *)

MaxTime == 1        \* the clock runs 0..MaxTime
MaxItems == 2       \* longest provider response
MaxFaults == 1      \* most deviations (see Deviations) in one response
MaxIds == 6         \* size of the pool of fresh document ids
MaxWaits == 1       \* countdowns the clock runs through next to the queue

---------------------------------------------------------------------------
(* Domains *)

Clouds == {"c1", "c2"}

\* Container names. Document ids are strings too ("i1", "i2", ...); they are
\* served by the API, and a container can be named after one.
Names == {"a", "i1"}
Procs == {"p1", "p2", "p3"}

\* The cloud whose controller a process runs (self.cloud).
CloudOf(p) == IF p = "p3" THEN "c2" ELSE "c1"

\* self.cloud.owner.id
OwnerOf(c) == "owner-" \o c

\* missing_since = None / task.last_success unset
None == -1

\* A value json.dumps rejects with TypeError, and a value it accepts.
OBJ == "<object>"
ExtraValues == {"x1", OBJ}
ExtraKeys == {"k"}

\* What list_container_objects returns for a container it can list.
ContentOf(name) == <<"obj-of-" \o name>>

\* One container of a provider response, with what the calls made on its
\* behalf do: the content fetch (ok / LibcloudError), the post-parse hook
\* (ok / raises), store.save() (ok / ValidationError / NotUniqueError).
\* After a LibcloudError neither the hook nor save() is called.
AllItems ==
    { i \in [name : Names, extra : [ExtraKeys -> ExtraValues],
             fetch : {"ok", "LibcloudError"},
             hook : {"ok", "raise"},
             save : {"ok", "ValidationError", "NotUniqueError"}] :
        i.fetch = "LibcloudError" => (i.hook = "ok" /\ i.save = "ok") }

\* Containers every call succeeds for.
CleanItems ==
    { i \in AllItems : i.fetch = "ok" /\ i.hook = "ok" /\ i.save = "ok" }

SeqsUpTo(S, n) == UNION { [1..k -> S] : k \in 0..n }

\* How far a container is from the plain case: a value json.dumps rejects,
\* a call that raises.
Deviations(i) ==
    (IF \E k \in DOMAIN i.extra : i.extra[k] = OBJ THEN 1 ELSE 0)
    + (IF i.fetch = "ok" THEN 0 ELSE 1)
    + (IF i.hook = "ok" THEN 0 ELSE 1)
    + (IF i.save = "ok" THEN 0 ELSE 1)

RECURSIVE SumDeviations(_)
SumDeviations(r) ==
    IF r = <<>> THEN 0
    ELSE Deviations(Head(r)) + SumDeviations(Tail(r))

Responses(items) ==
    { r \in SeqsUpTo(items, MaxItems) : SumDeviations(r) <= MaxFaults }

AllResponses == Responses(AllItems)

IdPool == { "i" \o ToString(i) : i \in 1..MaxIds }

\* The kinds of resource a cloud is polled for.
Kinds ==
    {"machines", "networks", "zones", "volumes",
     "locations", "sizes", "images"}

\* The sub-controllers of a cloud's main controller (the attributes network,
\* dns and storage of cloud.ctl, set by __init__ when the class names a
\* NetworkController, DnsController, StorageController).
Controllers(c) ==
    IF c = "c1" THEN {"network", "dns", "storage"} ELSE {"dns"}

\* set_default_interval(60 * 60 * 24)
DayInterval == 60 * 60 * 24

\* Values of a cloud specific field (a credential), apart from the unset "".
FieldValues == {"k1", "k2"}

\* What compute.check_connection() raises, if anything; "Exception" stands
\* for any exception that is none of the three named ones.
ProbeOutcomes ==
    {"ok", "CloudUnavailableError", "CloudUnauthorizedError", "SSLError",
     "Exception"}

\* The errors of a failed connection, as update lets them out.
ConnectionErrors ==
    {"CloudUnavailableError", "CloudUnauthorizedError", "SSLError"}

\* The Machine documents check_connection's list_machines can create.
MachineIds == {"m1"}

---------------------------------------------------------------------------
(* Pure helpers *)

Range(s) == { s[i] : i \in DOMAIN s }

\* '%s-%s' % (s.id, s.name)
Key(r) == r.id \o "-" \o r.name

\* ObjectStorage.as_dict(): the plain dict of a document.
AsDict(r) ==
    [id |-> r.id, cloud |-> r.cloud, name |-> r.name, extra |-> r.extra,
     content |-> r.content, missing_since |-> r.missing_since]

\* {key: s.as_dict() for s in <queryset>}
DictOfSet(recs) ==
    [k \in { Key(r) : r \in recs } |->
        AsDict(CHOOSE r \in recs : Key(r) = k)]

\* {key: s for s in storage_dict}: a later entry replaces an earlier one
\* with the same key.
LastIndex(s, k) ==
    CHOOSE i \in DOMAIN s :
        /\ Key(s[i]) = k
        /\ \A j \in DOMAIN s : Key(s[j]) = k => j <= i

DictOfSeq(s) ==
    [k \in { Key(s[i]) : i \in DOMAIN s } |-> AsDict(s[LastIndex(s, k)])]

\* jsonpatch.JsonPatch.from_diff(src, dst).patch, at the depth of the
\* top-level keys: the operations that turn src into dst.
JsonDiff(src, dst) ==
    { [op |-> "remove", path |-> k, value |-> "-"] :
        k \in DOMAIN src \ DOMAIN dst }
    \cup
    { [op |-> "add", path |-> k, value |-> dst[k]] :
        k \in DOMAIN dst \ DOMAIN src }
    \cup
    { [op |-> "replace", path |-> k, value |-> dst[k]] :
        k \in { x \in DOMAIN src \cap DOMAIN dst : src[x] # dst[x] } }

\* json.dumps(value) raises TypeError
JsonDumpsRaises(v) == v = OBJ

\* str(value)
Str(v) == "str(" \o v \o ")"

\* EnsureJson without the except clause that replaces the value.
EnsureJson_KeepsValue(extra) == extra

\* for key, value in store.extra.items(): try json.dumps / str(value)
EnsureJson(extra) ==
    [k \in DOMAIN extra |->
        IF JsonDumpsRaises(extra[k]) THEN Str(extra[k]) ELSE extra[k]]

\* list_cached_storage without the missing_since filter.
list_cached_storage_All(c) == { r \in store : r.cloud = c }

\* ObjectStorage.objects(cloud=cloud, missing_since=None)
list_cached_storage(c) ==
    { r \in store : r.cloud = c /\ r.missing_since = None }

\* ObjectStorage.objects(cloud=cloud, name=name): the matches of .get()
Lookup(c, name) == { r \in store : r.cloud = c /\ r.name = name }

\* Strings a newly drawn id differs from: the ids held by a document of the
\* collection or by an object in memory, and every name known at that time.
UsedIds ==
    { r.id : r \in store } \cup { r.name : r \in store }
    \cup UNION { { x.id : x \in Range(pass[p].storage) } : p \in Procs }
    \cup UNION { { x.id : x \in Range(pass[p].new_storage) } : p \in Procs }
    \cup UNION { { pass[p].resp[i].name : i \in DOMAIN pass[p].resp } :
                 p \in Procs }

\* The document ObjectStorage(cloud=..., name=...) constructs: a fresh id,
\* the defaults of the other fields.
NewDocument(c, name, id) ==
    [id |-> id, cloud |-> c, name |-> name,
     extra |-> [k \in {} |-> "x1"], content |-> <<>>,
     missing_since |-> None]

---------------------------------------------------------------------------
(* Initial state *)

IdleLocals ==
    [pc |-> "idle", first_run |-> FALSE, t0 |-> 0,
     cached |-> DictOfSet({}), resp |-> <<>>, idx |-> 1,
     storage |-> <<>>, new_storage |-> <<>>, created |-> {},
     saved |-> {}, err |-> "", patch |-> {}, listening |-> FALSE,
     logged |-> <<>>, published |-> <<>>, indexed |-> <<>>,
     lastok |-> FALSE, repeat |-> FALSE, behind |-> FALSE]

\* A Cloud document that is not in the collection.
BlankCloud ==
    [saved |-> FALSE, enabled |-> TRUE, deleted |-> None,
     dns_enabled |-> FALSE, observation_logs_enabled |-> FALSE,
     apikey |-> ""]

\* No lifecycle method has been called yet.
NoOp ==
    [name |-> "", cloud |-> "", error |-> "", probe |-> "none",
     flip |-> FALSE]

\* <Kind>PollingSchedule.add(cloud=cloud): the schedule of the cloud and
\* kind, made if there is none.
ScheduleAdd(S, c, kind) ==
    IF \E s \in S : s.cloud = c /\ s.kind = kind
    THEN S
    ELSE S \cup {[cloud |-> c, kind |-> kind, interval |-> None]}

\* schedule.set_default_interval(v); schedule.save()
SetDefaultInterval(S, c, kind, v) ==
    { IF s.cloud = c /\ s.kind = kind THEN [s EXCEPT !.interval = v] ELSE s :
        s \in S }

\* The schedule of a slow-changing kind: added, then given its interval.
AddSlow(S, c, kind) ==
    SetDefaultInterval(ScheduleAdd(S, c, kind), c, kind, DayInterval)

\* add_polling_schedules that leaves the slow-changing kinds at the
\* interval they are created with.
add_polling_schedules_NoInterval(S, c, dns) ==
    LET s1 == ScheduleAdd(S, c, "machines")
        s2 == IF "network" \in Controllers(c)
              THEN ScheduleAdd(s1, c, "networks") ELSE s1
        s3 == IF "dns" \in Controllers(c) /\ dns
              THEN ScheduleAdd(s2, c, "zones") ELSE s2
        s4 == IF "storage" \in Controllers(c)
              THEN ScheduleAdd(s3, c, "volumes") ELSE s3
    IN  ScheduleAdd(ScheduleAdd(ScheduleAdd(s4, c, "locations"), c, "sizes"),
                    c, "images")

\* BaseMainController.add_polling_schedules: the collection of schedules it
\* leaves, for a cloud whose dns_enabled is dns.
add_polling_schedules(S, c, dns) ==
    LET s1 == ScheduleAdd(S, c, "machines")
        s2 == IF "network" \in Controllers(c)
              THEN ScheduleAdd(s1, c, "networks") ELSE s1
        s3 == IF "dns" \in Controllers(c) /\ dns
              THEN ScheduleAdd(s2, c, "zones") ELSE s2
        s4 == IF "storage" \in Controllers(c)
              THEN ScheduleAdd(s3, c, "volumes") ELSE s3
    IN  AddSlow(AddSlow(AddSlow(s4, c, "locations"), c, "sizes"),
                c, "images")

\* Cloud c1 has been added (BaseMainController.add has returned); cloud c2
\* has not.
Init ==
    /\ store = {}
    /\ now = 0
    /\ task = [c \in Clouds |-> [lock |-> "", last_success |-> None]]
    /\ cloudcfg = [c \in Clouds |->
                     IF c = "c1"
                     THEN [BlankCloud EXCEPT
                             !.saved = TRUE,
                             !.observation_logs_enabled = TRUE,
                             !.apikey = "k1"]
                     ELSE BlankCloud]
    /\ pass = [p \in Procs |-> IdleLocals]
    /\ machines = {}
    /\ schedules = add_polling_schedules({}, "c1", FALSE)
    /\ queue = {}
    /\ op = NoOp

---------------------------------------------------------------------------
(* Task coordinator: PeriodicTaskInfo.task_runner, the guard list_storage   *)
(* runs its snapshot / fetch / store section under.                         *)

\* Entering the guard: refused while another execution of the key holds it.
RunnerCanEnter(c) == task[c].lock = ""

RunnerEnter(c, p) == [task EXCEPT ![c].lock = p]

\* Leaving the guard without an exception: last_success is persisted.
RunnerExitOk(c) ==
    [task EXCEPT ![c].lock = "", ![c].last_success = now]

\* Leaving the guard on an exception: no success is recorded.
RunnerExitError(c) == [task EXCEPT ![c].lock = ""]

---------------------------------------------------------------------------
(* list_storage, step by step *)

Set(p, f) == pass' = [pass EXCEPT ![p] = f]

\* An exception leaves list_storage from inside the guard.
Raise(p, locals, error) ==
    /\ Set(p, [locals EXCEPT !.pc = "failed", !.err = error,
                             !.lastok = FALSE])
    /\ task' = RunnerExitError(CloudOf(p))

\* task = PeriodicTaskInfo.get_or_add(task_key)
\* first_run = False if task.last_success else True
Start(p) ==
    /\ pass[p].pc \in {"idle", "done", "failed"}
    /\ Set(p, [IdleLocals EXCEPT
                  !.pc = "guard",
                  !.first_run = (task[CloudOf(p)].last_success = None),
                  !.t0 = now,
                  !.resp = pass[p].resp,
                  !.lastok = pass[p].lastok])
    /\ UNCHANGED <<store, now, task, cloudcfg, life>>

\* Another pass of the same cloud has left the guard and has not yet got to
\* its diff and publication.
BehindAnother(p) ==
    \E q \in Procs \ {p} :
        CloudOf(q) = CloudOf(p) /\ pass[q].pc = "diff"

\* EnterGuard for a body that is not run under the guard.
EnterGuard_Unguarded(p) ==
    /\ pass[p].pc = "guard"
    /\ task' = RunnerEnter(CloudOf(p), p)
    /\ Set(p, [pass[p] EXCEPT !.pc = "snapshot",
                              !.behind = BehindAnother(p)])
    /\ UNCHANGED <<store, now, cloudcfg, life>>

\* with task.task_runner(persist=persist):
EnterGuard(p) ==
    /\ pass[p].pc = "guard"
    /\ IF RunnerCanEnter(CloudOf(p))
       THEN /\ task' = RunnerEnter(CloudOf(p), p)
            /\ Set(p, [pass[p] EXCEPT !.pc = "snapshot",
                                      !.behind = BehindAnother(p)])
       ELSE /\ task' = task
            /\ Set(p, [pass[p] EXCEPT !.pc = "failed",
                                      !.err = "LockTaken",
                                      !.lastok = FALSE])
    /\ UNCHANGED <<store, now, cloudcfg, life>>

\* cached_storage = {'%s-%s' % (s.id, s.name): s.as_dict()
\*                   for s in self.list_cached_storage()}
Snapshot(p) ==
    /\ pass[p].pc = "snapshot"
    /\ Set(p, [pass[p] EXCEPT
                  !.pc = "fetch",
                  !.cached = DictOfSet(list_cached_storage(CloudOf(p)))])
    /\ UNCHANGED <<store, now, task, cloudcfg, life>>

\* libcloud_storage = self._list_storage__fetch_storage() returns.
FetchOk(p, responses) ==
    /\ pass[p].pc = "fetch"
    /\ \E r \in responses :
          Set(p, [pass[p] EXCEPT
                     !.pc = "loop", !.resp = r, !.idx = 1,
                     !.repeat = (pass[p].lastok /\ r = pass[p].resp)])
    /\ UNCHANGED <<store, now, task, cloudcfg, life>>

\* FetchFail that also marks the documents of the cloud missing.
FetchFail_MarkAll(p) ==
    /\ pass[p].pc = "fetch"
    /\ Raise(p, [pass[p] EXCEPT !.resp = <<>>], "CloudUnavailableError")
    /\ store' = { IF r.cloud = CloudOf(p) /\ r.missing_since = None
                  THEN [r EXCEPT !.missing_since = now]
                  ELSE r : r \in store }
    /\ UNCHANGED <<now, cloudcfg, life>>

\* self._list_storage__fetch_storage() raises ConnectionError or any other
\* Exception: both become CloudUnavailableError.
FetchFail(p) ==
    /\ pass[p].pc = "fetch"
    /\ \E raised \in {"ConnectionError", "Exception"} :
          Raise(p, [pass[p] EXCEPT !.resp = <<>>], "CloudUnavailableError")
    /\ UNCHANGED <<store, now, cloudcfg, life>>

\* The id a newly constructed document gets (uuid4 in the code): one that
\* no document and no object in memory holds.
IdOf(n) == "i" \o ToString(n)

HasFreshId == \E n \in 1..MaxIds : IdOf(n) \notin UsedIds

FreshId ==
    IdOf(CHOOSE n \in 1..MaxIds :
            /\ IdOf(n) \notin UsedIds
            /\ \A m \in 1..(n - 1) : IdOf(m) \in UsedIds)

\* GetOrNew that never looks the document up.
GetOrNew_AlwaysNew(c, name) ==
    [doc |-> NewDocument(c, name, FreshId), isnew |-> TRUE]

\* try: store = ObjectStorage.objects.get(cloud=self.cloud, name=...)
\* except ObjectStorage.DoesNotExist: store = ObjectStorage(cloud=..., name=...)
\* The result: the document worked on and whether it was newly constructed.
GetOrNew(c, name) ==
    IF Lookup(c, name) = {}
    THEN [doc |-> NewDocument(c, name, FreshId), isnew |-> TRUE]
    ELSE [doc |-> CHOOSE r \in Lookup(c, name) : TRUE, isnew |-> FALSE]

\* store.save(): the document replaces the one with its id, or is inserted.
Save(st, doc) == { r \in st : r.id # doc.id } \cup {doc}

\* The key under which the hook of a subclass leaves a value in extra.
HookKey == "hk"

\* self._list_storage__postparse_store(store, libcloud_store): the base
\* class hook edits nothing; the hook of a subclass edits the document in
\* place, here by putting a value json.dumps rejects into its extra.
PostParse(doc, item) ==
    IF item.hook = "override"
    THEN [doc EXCEPT !.extra =
            [k \in DOMAIN doc.extra \cup {HookKey} |->
                IF k = HookKey THEN OBJ ELSE doc.extra[k]]]
    ELSE doc

\* SkipsItem that also gives up the container when the hook raises.
SkipsItem_OnHookError(item) ==
    item.fetch = "LibcloudError" \/ item.hook = "raise"

\* SkipsItem as `except LibcloudError: pass` would have it.
SkipsItem_Never(item) == FALSE

\* except LibcloudError: continue
SkipsItem(item) == item.fetch = "LibcloudError"

\* HookError without the try statement around the hook.
HookError_Propagates(item) == "Exception"

\* try: self._list_storage__postparse_store(...) except Exception: log.
\* The exception that leaves the try statement: none.
HookError(item) == ""

\* SaveError for a policy that logs a failed save and goes on.
SaveError_LogAndGoOn(item) == ""

\* try: store.save() except ValidationError: raise BadRequestError(...)
\* except NotUniqueError: raise ObjectStorageExistsError()
SaveError(item) ==
    CASE item.save = "ValidationError" -> "BadRequestError"
      [] item.save = "NotUniqueError" -> "ObjectStorageExistsError"
      [] OTHER -> ""

\* One iteration of `for libcloud_store in libcloud_storage:`.
ProcessItem(p) ==
    /\ pass[p].pc = "loop"
    /\ pass[p].idx <= Len(pass[p].resp)
    /\ LET L == pass[p]
           c == CloudOf(p)
           item == L.resp[L.idx]
       IN  IF Cardinality(Lookup(c, item.name)) > 1
           THEN \* .get() raises MultipleObjectsReturned, which nothing catches
                /\ Raise(p, L, "MultipleObjectsReturned")
                /\ store' = store
           ELSE
             /\ HasFreshId
             /\ LET got == GetOrNew(c, item.name)
                    doc1 == [got.doc EXCEPT !.extra = item.extra]
                    doc2 == [doc1 EXCEPT !.content = ContentOf(item.name)]
                    doc3 == IF item.hook = "raise" THEN doc2
                            ELSE PostParse(doc2, item)
                    doc4 == [doc3 EXCEPT !.extra = EnsureJson(doc3.extra)]
                    inmem == IF SkipsItem(item) THEN doc1 ELSE doc4
                    news == IF got.isnew THEN Append(L.new_storage, inmem)
                            ELSE L.new_storage
                    L1 == [L EXCEPT !.new_storage = news]
                    error == IF item.hook = "raise" /\ HookError(item) # ""
                             THEN HookError(item)
                             ELSE SaveError(item)
                IN  IF SkipsItem(item)
                    THEN /\ Set(p, [L1 EXCEPT !.idx = L.idx + 1])
                         /\ UNCHANGED <<store, task>>
                    ELSE IF error # ""
                    THEN /\ Raise(p, L1, error)
                         /\ store' = store
                    ELSE /\ store' = Save(store, doc4)
                         /\ Set(p, [L1 EXCEPT
                                !.idx = L.idx + 1,
                                !.storage = Append(L.storage, doc4),
                                !.saved = L.saved \cup {L.idx},
                                !.created = IF got.isnew
                                            THEN L.created \cup {doc4.id}
                                            ELSE L.created])
                         /\ task' = task
    /\ UNCHANGED <<now, cloudcfg, life>>

\* MarkAbsent that deletes the documents it selects.
MarkAbsent_Remove(st, c, names, t) ==
    { r \in st : ~(r.cloud = c /\ r.name \notin names
                   /\ r.missing_since = None) }

\* MarkAbsent without the cloud in its filter.
MarkAbsent_AnyCloud(st, c, names, t) ==
    { IF r.name \notin names /\ r.missing_since = None
      THEN [r EXCEPT !.missing_since = t]
      ELSE r : r \in st }

\* ObjectStorage.objects(cloud=self.cloud, name__nin=[...],
\*     missing_since=None).update(missing_since=datetime.datetime.utcnow())
MarkAbsent(st, c, names, t) ==
    { IF r.cloud = c /\ r.name \notin names /\ r.missing_since = None
      THEN [r EXCEPT !.missing_since = t]
      ELSE r : r \in st }

\* ObjectStorage.objects(cloud=self.cloud, id__in=[s.name for s in storage]
\*     ).update(missing_since=None)
ClearReturned(st, c, names) ==
    { IF r.cloud = c /\ r.id \in names
      THEN [r EXCEPT !.missing_since = None]
      ELSE r : r \in st }

\* The two updates that follow the loop.
MarkMissing(p) ==
    /\ pass[p].pc = "loop"
    /\ pass[p].idx > Len(pass[p].resp)
    /\ LET names == { x.name : x \in Range(pass[p].storage) }
       IN  store' = ClearReturned(MarkAbsent(store, CloudOf(p), names, now),
                                  CloudOf(p), names)
    /\ Set(p, [pass[p] EXCEPT !.pc = "complete"])
    /\ UNCHANGED <<now, task, cloudcfg, life>>

\* Complete for a with statement that would also hold the diff and the
\* publication: the guard is not left yet.
Complete_KeepsGuard(p) ==
    /\ pass[p].pc = "complete"
    /\ Set(p, [pass[p] EXCEPT !.pc = "diff",
                              !.indexed = pass[p].new_storage])
    /\ UNCHANGED <<store, now, task, cloudcfg, life>>

\* self.cloud.owner.mapper.update(new_storage, asynchronous=False);
\* return storage; the guard is left without an exception.
Complete(p) ==
    /\ pass[p].pc = "complete"
    /\ Set(p, [pass[p] EXCEPT !.pc = "diff",
                              !.indexed = pass[p].new_storage])
    /\ task' = RunnerExitOk(CloudOf(p))
    /\ UNCHANGED <<store, now, cloudcfg, life>>

\* log_observations(owner.id, cloud.id, 'objectstorage', patch,
\*                  cached_storage, new_storage)
LogEntry(c, patch, before, after) ==
    [owner |-> OwnerOf(c), cloud |-> c, kind |-> "objectstorage",
     patch |-> patch, before |-> before, after |-> after]

\* amqp_publish_user(owner.id, routing_key='patch_objectstorage',
\*                   data={'cloud_id': cloud.id, 'patch': patch})
Message(c, patch) ==
    [owner |-> OwnerOf(c), routing_key |-> "patch_objectstorage",
     data |-> [cloud_id |-> c, patch |-> patch]]

\* ShouldLog without the test of the cloud's flag.
ShouldLog_IgnoresFlag(first_run, enabled) == ~first_run

\* ShouldLog without the first_run test.
ShouldLog_EveryRun(first_run, enabled) == enabled

\* if not first_run and self.cloud.observation_logs_enabled:
ShouldLog(first_run, enabled) == ~first_run /\ enabled

\* Outbox that does not ask whether the owner is listening.
Outbox_Unconditional(c, patch, listening) == <<Message(c, patch)>>

\* if amqp_owner_listening(self.cloud.owner.id): amqp_publish_user(...)
\* The messages handed to the publisher for a non-empty patch.
Outbox(c, patch, listening) ==
    IF listening THEN <<Message(c, patch)>> ELSE <<>>

\* The part of list_storage that follows the guard: diff, log, publish,
\* return storage.
Publish(p) ==
    /\ pass[p].pc = "diff"
    /\ LET L == pass[p]
           c == CloudOf(p)
           new_storage == DictOfSeq(L.storage)
           patch == IF DOMAIN L.cached # {} \/ L.storage # <<>>
                    THEN JsonDiff(L.cached, new_storage)
                    ELSE {}
           logs == IF ShouldLog(L.first_run,
                                cloudcfg[c].observation_logs_enabled)
                   THEN <<LogEntry(c, patch, L.cached, new_storage)>>
                   ELSE <<>>
       IN  IF patch = {}
           THEN Set(p, [L EXCEPT !.pc = "done", !.lastok = TRUE])
           ELSE \E listening \in BOOLEAN :
                  Set(p, [L EXCEPT
                      !.pc = "done", !.lastok = TRUE, !.patch = patch,
                      !.logged = logs, !.listening = listening,
                      !.published = Outbox(c, patch, listening)])
    /\ UNCHANGED <<store, now, task, cloudcfg, life>>

---------------------------------------------------------------------------
(* Environment *)

\* Time passes.
Tick ==
    /\ now < MaxTime
    /\ now' = now + 1
    /\ UNCHANGED <<store, task, cloudcfg, pass, life>>

\* BaseMainController.observation_logs_enable
observation_logs_enable(c) ==
    /\ ~cloudcfg[c].observation_logs_enabled
    /\ cloudcfg' = [cloudcfg EXCEPT ![c].observation_logs_enabled = TRUE]
    /\ UNCHANGED <<store, now, task, pass, life>>

\* BaseMainController.observation_logs_disable
observation_logs_disable(c) ==
    /\ cloudcfg[c].observation_logs_enabled
    /\ cloudcfg' = [cloudcfg EXCEPT ![c].observation_logs_enabled = FALSE]
    /\ UNCHANGED <<store, now, task, pass, life>>

---------------------------------------------------------------------------
(* Cloud lifecycle: BaseMainController *)

\* countdown=30
Countdown == 30

\* The call of a lifecycle method has ended, with the error it raised or "";
\* probe is what compute.check_connection() did, "none" if it was not called.
SetOp(name, c, error, probe) ==
    op' = [name |-> name, cloud |-> c, error |-> error, probe |-> probe,
           flip |-> ~op.flip]

\* task.apply_async(args, countdown=delay)
Enqueue(q, name, c, delay) ==
    q \cup {[name |-> name, cloud |-> c, eta |-> now + delay]}

\* What a call of update is given and what the calls it makes do: one
\* keyword argument (a cloud specific field or not), the two flags, the
\* preparse hook, cloud.validate(), compute.check_connection() and the
\* Machine documents its listing creates, cloud.save().
\* A call that is not made (an earlier one raised, or a flag is off) is
\* listed with its plain outcome, and so is a value that is not used.
UpdateInputs ==
    { in \in [key : {"apikey", "bogus"}, value : FieldValues,
              fail_on_error : BOOLEAN, fail_on_invalid_params : BOOLEAN,
              preparse : {"ok", "MistError", "Exception"},
              validate : {"ok", "ValidationError"},
              probe : ProbeOutcomes, made : SUBSET MachineIds,
              save : {"ok", "ValidationError", "NotUniqueError"}] :
        LET rejected == in.key = "bogus" /\ in.fail_on_invalid_params
            unprobed == \/ in.preparse # "ok" \/ rejected
                        \/ in.validate # "ok" \/ ~in.fail_on_error
        IN  /\ in.key = "bogus" => in.value = "k1"
            /\ (in.preparse # "ok" \/ rejected) => in.validate = "ok"
            /\ unprobed => (in.probe = "ok" /\ in.made = {})
            /\ (in.preparse # "ok" \/ rejected \/ in.validate # "ok"
                 \/ in.probe # "ok") => in.save = "ok" }

\* A call of update in which nothing raises and no connection is tried.
PlainUpdate ==
    [key |-> "apikey", value |-> "k1", fail_on_error |-> FALSE,
     fail_on_invalid_params |-> FALSE, preparse |-> "ok", validate |-> "ok",
     probe |-> "ok", made |-> {}, save |-> "ok"]

\* update got as far as compute.check_connection().
Probed(in) ==
    /\ in.preparse = "ok"
    /\ ~(in.key = "bogus" /\ in.fail_on_invalid_params)
    /\ in.validate = "ok"
    /\ in.fail_on_error

\* What check_connection did in a call of update.
ProbeOf(in) == IF Probed(in) THEN in.probe ELSE "none"

\* The exception that leaves update, "" if it returns.
UpdateError(in) ==
    IF in.preparse = "MistError" THEN "MistError"
    ELSE IF in.preparse = "Exception" THEN "InternalServerError"
    ELSE IF in.key = "bogus" /\ in.fail_on_invalid_params
         THEN "BadRequestError"
    ELSE IF in.validate = "ValidationError" THEN "BadRequestError"
    ELSE IF in.fail_on_error /\ in.probe \in ConnectionErrors THEN in.probe
    ELSE IF in.fail_on_error /\ in.probe = "Exception"
         THEN "CloudUnavailableError"
    ELSE IF in.save = "ValidationError" THEN "BadRequestError"
    ELSE IF in.save = "NotUniqueError" THEN "CloudExistsError"
    ELSE ""

\* for key, value in kwargs.items(): setattr(self.cloud, key, value)
\* (a key that is no cloud specific field has been popped or has raised)
SetFields(doc, in) ==
    IF in.key = "apikey" THEN [doc EXCEPT !.apikey = in.value] ELSE doc

\* The Machine documents the connectivity probe of update leaves.
ProbeMachines(c, in) ==
    IF Probed(in) THEN { [cloud |-> c, id |-> m] : m \in in.made } ELSE {}

\* Persisted with cloud.save() ahead of the connectivity probe.
Persisted_SaveFirst(doc, cur, in) ==
    IF UpdateError(in) = "" \/ (Probed(in) /\ in.save = "ok")
    THEN [SetFields(doc, in) EXCEPT !.saved = TRUE]
    ELSE cur

\* The document of the cloud in the collection after update was called on
\* the in-memory document doc while the collection held cur: self.cloud is
\* saved by the last statement that can raise, and by no other.
Persisted(doc, cur, in) ==
    IF UpdateError(in) = ""
    THEN [SetFields(doc, in) EXCEPT !.saved = TRUE]
    ELSE cur

\* ListImagesPollingSchedule.objects.get(cloud=self.cloud), then
\* list_images.apply_async((schedule_id,)); DoesNotExist is passed over.
KickImages(q, c, error) ==
    IF error = "" /\ \E s \in schedules : s.cloud = c /\ s.kind = "images"
    THEN Enqueue(q, "list_images", c, 0)
    ELSE q

\* BaseMainController.update, called with one of inputs.
UpdateWith(c, inputs) ==
    /\ cloudcfg[c].saved
    /\ \E in \in inputs :
          /\ cloudcfg' = [cloudcfg EXCEPT
                            ![c] = Persisted(cloudcfg[c], cloudcfg[c], in)]
          /\ machines' = machines \cup ProbeMachines(c, in)
          /\ queue' = KickImages(queue, c, UpdateError(in))
          /\ SetOp("update", c, UpdateError(in), ProbeOf(in))
    /\ UNCHANGED <<store, now, task, pass, schedules>>

update(c) == UpdateWith(c, UpdateInputs)

\* except (CloudUnavailableError, CloudUnauthorizedError) as exc:
\* the errors of update after which add deletes the cloud's machines.
AddCleansUp(error) ==
    error \in {"CloudUnavailableError", "CloudUnauthorizedError"}

\* BaseMainController.add, called on a Cloud document that is not saved,
\* with dns_enabled one of dnss, a preparse hook that ends as one of pres
\* and a call of update that goes as one of inputs.
AddWith(c, dnss, pres, inputs) ==
    /\ ~cloudcfg[c].saved
    /\ \E dns \in dnss, pre \in pres, in \in inputs :
          /\ pre # "ok" => in = PlainUpdate
          /\ LET doc == [BlankCloud EXCEPT
                           !.dns_enabled = dns,
                           !.observation_logs_enabled = TRUE]
                 error == IF pre = "MistError" THEN "MistError"
                          ELSE IF pre = "Exception" THEN "InternalServerError"
                          ELSE UpdateError(in)
                 made == IF pre = "ok" THEN ProbeMachines(c, in) ELSE {}
             IN  /\ cloudcfg' = [cloudcfg EXCEPT
                                   ![c] = IF pre = "ok"
                                          THEN Persisted(doc, cloudcfg[c], in)
                                          ELSE cloudcfg[c]]
                 /\ machines' = IF pre = "ok" /\ AddCleansUp(error)
                                THEN { m \in machines \cup made : m.cloud # c }
                                ELSE machines \cup made
                 /\ schedules' = IF error = ""
                                 THEN add_polling_schedules(schedules, c, dns)
                                 ELSE schedules
                 /\ queue' = IF pre = "ok"
                             THEN KickImages(queue, c, error) ELSE queue
                 /\ SetOp("add", c, error,
                          IF pre = "ok" THEN ProbeOf(in) ELSE "none")
    /\ UNCHANGED <<store, now, task, pass>>

add(c) ==
    AddWith(c, BOOLEAN, {"ok", "MistError", "Exception"}, UpdateInputs)

\* mist.api.tasks.delete_periodic_tasks(cloud_id): the periodic tasks
\* (PeriodicTaskInfo) of the cloud are deleted; get_or_add makes a new one.
delete_periodic_tasks(T, c) ==
    [T EXCEPT ![c] = [lock |-> "", last_success |-> None]]

\* BaseMainController.enable
enable(c) ==
    /\ cloudcfg[c].saved
    /\ cloudcfg' = [cloudcfg EXCEPT ![c].enabled = TRUE]
    /\ task' = delete_periodic_tasks(task, c)
    /\ schedules' = add_polling_schedules(schedules, c,
                                          cloudcfg[c].dns_enabled)
    /\ SetOp("enable", c, "", "none")
    /\ UNCHANGED <<store, now, pass, machines, queue>>

\* BaseMainController.disable
disable(c) ==
    /\ cloudcfg[c].saved
    /\ cloudcfg' = [cloudcfg EXCEPT ![c].enabled = FALSE]
    /\ queue' = Enqueue(Enqueue(queue, "set_missing_since", c, Countdown),
                        "delete_periodic_tasks", c, Countdown)
    /\ SetOp("disable", c, "", "none")
    /\ UNCHANGED <<store, now, task, pass, machines, schedules>>

\* BaseMainController.dns_enable
dns_enable(c) ==
    /\ cloudcfg[c].saved
    /\ ~cloudcfg[c].dns_enabled
    /\ cloudcfg' = [cloudcfg EXCEPT ![c].dns_enabled = TRUE]
    /\ UNCHANGED <<store, now, task, pass, life>>

\* BaseMainController.dns_disable
dns_disable(c) ==
    /\ cloudcfg[c].saved
    /\ cloudcfg[c].dns_enabled
    /\ cloudcfg' = [cloudcfg EXCEPT ![c].dns_enabled = FALSE]
    /\ UNCHANGED <<store, now, task, pass, life>>

\* self.cloud.delete(): the documents that refer to the cloud go with it
\* when their collection cascades.
CascadeDelete(st, c, cascades) ==
    IF cascades THEN { r \in st : r.cloud # c } ELSE st

\* Machine.objects(cloud=self.cloud).delete()
DeleteMachines(ms, c) == { m \in ms : m.cloud # c }

\* delete that expires the document whatever its argument.
delete_Hard(c, expire) ==
    /\ cloudcfg[c].saved
    /\ machines' = DeleteMachines(machines, c)
    /\ cloudcfg' = [cloudcfg EXCEPT ![c] = BlankCloud]
    /\ store' = CascadeDelete(store, c, TRUE)
    /\ SetOp(IF expire THEN "expire" ELSE "delete", c, "", "none")
    /\ UNCHANGED <<now, task, pass, schedules, queue>>

\* BaseMainController.delete
delete(c, expire) ==
    /\ cloudcfg[c].saved
    /\ IF expire
       THEN /\ machines' = DeleteMachines(machines, c)
            /\ cloudcfg' = [cloudcfg EXCEPT ![c] = BlankCloud]
            /\ \E cascades \in BOOLEAN :
                  store' = CascadeDelete(store, c, cascades)
            /\ queue' = queue
       ELSE /\ cloudcfg' = [cloudcfg EXCEPT ![c].deleted = now]
            /\ queue' = Enqueue(queue, "set_missing_since", c, Countdown)
            /\ UNCHANGED <<machines, store>>
    /\ SetOp(IF expire THEN "expire" ELSE "delete", c, "", "none")
    /\ UNCHANGED <<now, task, pass, schedules>>

---------------------------------------------------------------------------
(* The task queue and the poller *)

\* mist.api.tasks.set_missing_since(cloud_id): every resource of the cloud
\* that is not marked missing is marked now.
set_missing_since(st, c, t) ==
    { IF r.cloud = c /\ r.missing_since = None
      THEN [r EXCEPT !.missing_since = t]
      ELSE r : r \in st }

\* The worker runs a queued task whose countdown is over. list_images has
\* no effect on the collections of the model.
RunQueued ==
    \E t \in queue :
        /\ t.eta <= now
        /\ queue' = queue \ {t}
        /\ store' = IF t.name = "set_missing_since"
                    THEN set_missing_since(store, t.cloud, now)
                    ELSE store
        /\ task' = IF t.name = "delete_periodic_tasks"
                   THEN delete_periodic_tasks(task, t.cloud)
                   ELSE task
        /\ UNCHANGED <<now, cloudcfg, pass, machines, schedules, op>>

\* A countdown passes.
Wait ==
    /\ now < MaxWaits * Countdown
    /\ now' = now + Countdown
    /\ UNCHANGED <<store, task, cloudcfg, pass, life>>

\* The poller triggers passes of a cloud it takes to be enabled. It reads
\* the Cloud documents every 20 seconds, so it can go on triggering passes
\* of a disabled cloud for a while, but not until the countdown of the tasks
\* that disable queued is over.
PollerTriggers(c) ==
    /\ cloudcfg[c].saved
    /\ \/ cloudcfg[c].enabled
       \/ \E t \in queue :
             t.cloud = c /\ t.name = "set_missing_since" /\ now < t.eta

---------------------------------------------------------------------------
(* Specifications *)

PassStep(p, responses) ==
    \/ Start(p)
    \/ EnterGuard(p)
    \/ Snapshot(p)
    \/ FetchOk(p, responses)
    \/ FetchFail(p)
    \/ ProcessItem(p)
    \/ MarkMissing(p)
    \/ Complete(p)
    \/ Publish(p)

\* One poller of one cloud, every kind of provider response.
Next ==
    \/ PassStep("p1", AllResponses)
    \/ Tick
    \/ observation_logs_enable("c1")
    \/ observation_logs_disable("c1")

Spec == Init /\ [][Next]_vars

\* Responses in which every call made for every container succeeds.
PlainResponses ==
    SeqsUpTo({ x \in CleanItems : Deviations(x) = 0 }, MaxItems)

\* One poller of one cloud, every pass of which runs without an error in
\* the loop.
NextPlain ==
    \/ PassStep("p1", PlainResponses)
    \/ Tick

SpecPlain == Init /\ [][NextPlain]_vars

\* Responses of at most one container, every call succeeding.
ShortResponses ==
    {<<>>} \cup { <<i>> : i \in { x \in CleanItems : Deviations(x) = 0 } }

\* Two triggers of the same task key (cloud c1) that can fire at any time.
\* The clock stands still: the guard does not read it.
NextConc ==
    \/ PassStep("p1", ShortResponses)
    \/ PassStep("p2", ShortResponses)

SpecConc == Init /\ [][NextConc]_vars

\* The lifecycle of the clouds, without reconciliation passes: cloud c2 is
\* added, updated, enabled, disabled, has its DNS switched and is deleted,
\* in every order; cloud c1, which has every sub-controller, is enabled.
NextLife ==
    \/ add("c2")
    \/ update("c2")
    \/ \E c \in Clouds : enable(c)
    \/ disable("c2")
    \/ dns_enable("c2")
    \/ dns_disable("c2")
    \/ \E expire \in BOOLEAN : delete("c2", expire)

SpecLife == Init /\ [][NextLife]_vars

\* Calls of update that set no new value and try the connection, which
\* works or fails.
ProbingUpdates ==
    { in \in UpdateInputs :
        /\ in.key = "apikey" /\ in.value = "k1"
        /\ in.fail_on_error /\ ~in.fail_on_invalid_params
        /\ in.preparse = "ok" /\ in.validate = "ok" /\ in.save = "ok"
        /\ in.probe \in {"ok", "SSLError"} }

\* One poller of cloud c1, started only while the Cloud document exists,
\* next to the calls that probe the cloud and that delete it.
NextDelete ==
    \/ cloudcfg["c1"].saved /\ Start("p1")
    \/ EnterGuard("p1")
    \/ Snapshot("p1")
    \/ FetchOk("p1", ShortResponses)
    \/ FetchFail("p1")
    \/ ProcessItem("p1")
    \/ MarkMissing("p1")
    \/ Complete("p1")
    \/ Publish("p1")
    \/ UpdateWith("c1", ProbingUpdates)
    \/ \E expire \in BOOLEAN : delete("c1", expire)

SpecDelete == Init /\ [][NextDelete]_vars

\* Containers every call succeeds for, with any extra value, parsed by the
\* hook of the base class or by the hook of a subclass.
ExtraItems ==
    CleanItems \cup { [i EXCEPT !.hook = "override"] : i \in CleanItems }

\* One poller of one cloud; the provider and the post-parse hook supply
\* values of extra that json.dumps accepts or rejects.
NextExtra ==
    \/ PassStep("p1", SeqsUpTo(ExtraItems, MaxItems))

SpecExtra == Init /\ [][NextExtra]_vars

\* Two clouds polled side by side: cloud c2 is added without a connection
\* being tried, then the poller of c1 and the poller of c2 run whenever they
\* like, on responses that can name the same containers. The clock stands
\* still.
NextTwoClouds ==
    \/ AddWith("c2", {FALSE}, {"ok"}, {PlainUpdate})
    \/ PassStep("p1", ShortResponses)
    \/ cloudcfg["c2"].saved /\ Start("p3")
    \/ EnterGuard("p3")
    \/ Snapshot("p3")
    \/ FetchOk("p3", ShortResponses)
    \/ FetchFail("p3")
    \/ ProcessItem("p3")
    \/ MarkMissing("p3")
    \/ Complete("p3")
    \/ Publish("p3")

SpecTwoClouds == Init /\ [][NextTwoClouds]_vars

\* Cloud c1 is disabled and enabled at any time while its poller goes on
\* as long as it takes the cloud to be enabled, a pass takes as long as it
\* takes, and the worker runs the delayed tasks once their countdown is
\* over.
NextDisable ==
    \/ PollerTriggers("c1") /\ Start("p1")
    \/ EnterGuard("p1")
    \/ Snapshot("p1")
    \/ FetchOk("p1", ShortResponses)
    \/ FetchFail("p1")
    \/ ProcessItem("p1")
    \/ MarkMissing("p1")
    \/ Complete("p1")
    \/ Publish("p1")
    \/ disable("c1")
    \/ enable("c1")
    \/ Wait
    \/ RunQueued

SpecDisable == Init /\ [][NextDisable]_vars

---------------------------------------------------------------------------
(* Vocabulary of the properties *)

Done(p) == pass[p].pc = "done"

Failed(p) == pass[p].pc = "failed"

\* The names the provider returned in the pass.
RespNames(p) == { pass[p].resp[i].name : i \in DOMAIN pass[p].resp }

\* Every container of the response went through the whole loop body.
AllProcessed(p) == pass[p].saved = DOMAIN pass[p].resp

\* The names of the cloud's documents that are not marked missing.
NonMissingNames(c) == { r.name : r \in list_cached_storage(c) }

\* The section of list_storage that runs inside the guard.
InGuard(p) == pass[p].pc \in {"snapshot", "fetch", "loop", "complete"}

\* The ids of the documents of a cloud in a collection.
StoredIds(st, c) == { r.id : r \in { x \in st : x.cloud = c } }

\* The kinds of resource a cloud supports: machines, locations, sizes and
\* images always, the others by its sub-controllers and its dns_enabled.
Supports(c, kind, dns) ==
    \/ kind \in {"machines", "locations", "sizes", "images"}
    \/ kind = "networks" /\ "network" \in Controllers(c)
    \/ kind = "zones" /\ "dns" \in Controllers(c) /\ dns
    \/ kind = "volumes" /\ "storage" \in Controllers(c)

\* The kinds a cloud has a polling schedule for.
ScheduledKinds(S, c) == { s.kind : s \in { x \in S : x.cloud = c } }

\* The tasks that disable queued for the cloud have all run.
DelayedTasksRan(c) ==
    \A t \in queue :
        t.cloud = c =>
            t.name \notin {"set_missing_since", "delete_periodic_tasks"}

\* Every resource of the cloud is marked missing.
AllMissing(c) == \A r \in store : r.cloud = c => r.missing_since # None

\* The cloud has no periodic task: none holds its guard and none has a
\* success on record.
NoPeriodicTask(c) == task[c] = [lock |-> "", last_success |-> None]

\* The after snapshot of a pass: {key: s for s in storage_dict}
AfterSnapshot(p) == DictOfSeq(pass[p].storage)

\* What a subscriber holds after applying a patch to the listing it held.
ApplyPatch(held, patch) ==
    LET removed == { o.path : o \in { x \in patch : x.op = "remove" } }
        written == { o.path : o \in { x \in patch : x.op # "remove" } }
    IN  [k \in (DOMAIN held \ removed) \cup written |->
            IF k \in written
            THEN (CHOOSE o \in patch : o.op # "remove" /\ o.path = k).value
            ELSE held[k]]

\* No document of the cloud is named like a document id.
OrdinaryNames(c) == \A r \in store : r.cloud = c => r.name \notin IdPool

---------------------------------------------------------------------------
(* C1 - convergence. After a successful pass in which every returned      *)
(* container was processed, the names of the cloud's documents with        *)
(* missing_since = None are exactly the names of the response. Stated for  *)
(* clouds none of whose containers is named like a document id.            *)
C1_Convergence ==
    \A p \in Procs :
        (Done(p) /\ AllProcessed(p) /\ OrdinaryNames(CloudOf(p)))
            => NonMissingNames(CloudOf(p)) = RespNames(p)

(* C2 - a container that the provider returned and that was processed     *)
(* without error ends the pass with missing_since = None. Stated for       *)
(* clouds none of whose containers is named like a document id.            *)
C2_ReturnedNotMissing ==
    \A p \in Procs :
        (Done(p) /\ OrdinaryNames(CloudOf(p))) =>
            \A i \in pass[p].saved :
                \A r \in Lookup(CloudOf(p), pass[p].resp[i].name) :
                    r.missing_since = None

(* C4 - idempotence. The second of two passes in a row with the same      *)
(* provider response creates no document and computes an empty diff.       *)
(* Stated for clouds none of whose containers is named like a document id. *)
C4_Idempotent ==
    \A p \in Procs :
        (Done(p) /\ pass[p].repeat /\ OrdinaryNames(CloudOf(p)))
            => (pass[p].created = {} /\ pass[p].patch = {})

(* C3 - a document of the cloud that is absent from the        *)
(* response of a successful pass ends the pass with missing_since set to   *)
(* a time at or after the start of the pass.                               *)
C3_AbsentMarkedSincePassStart ==
    \A p \in Procs :
        Done(p) =>
            \A r \in store :
                (r.cloud = CloudOf(p) /\ r.name \notin RespNames(p))
                    => (r.missing_since # None
                        /\ r.missing_since >= pass[p].t0)

(* C5 - fail closed. No step of a pass up to its fetch changes a document  *)
(* or the last_success of the task, and the step in which the provider     *)
(* list call raises ends the pass with CloudUnavailableError.              *)
C5_FailClosed ==
    [][\A p \in Procs :
          /\ (pass[p].pc \in {"idle", "done", "failed", "guard",
                              "snapshot", "fetch"}
              /\ pass'[p] # pass[p]
              /\ pass'[p].pc \in {"guard", "snapshot", "fetch", "failed"})
                => /\ store' = store
                   /\ task'[CloudOf(p)].last_success
                        = task[CloudOf(p)].last_success
          /\ (pass[p].pc = "fetch" /\ pass'[p].pc = "failed")
                => pass'[p].err = "CloudUnavailableError"
      ]_vars

C5_Witness ==
    \E p \in Procs :
        /\ Failed(p)
        /\ pass[p].err = "CloudUnavailableError"
        /\ list_cached_storage(CloudOf(p)) # {}
        /\ DOMAIN pass[p].cached = { Key(r) :
                                       r \in list_cached_storage(CloudOf(p)) }

(* C6 as claimed - the first successful pass of a cloud (last_success      *)
(* unset when it starts) appends no observation-log entry and publishes    *)
(* nothing.                                                                *)
C6_FirstRunSilent ==
    \A p \in Procs :
        (Done(p) /\ pass[p].first_run)
            => (pass[p].logged = <<>> /\ pass[p].published = <<>>)

(* C6 as amended - the first successful pass appends no observation-log    *)
(* entry; it publishes its patch when the diff is non-empty and the owner  *)
(* is listening.                                                           *)
C6_FirstRunNoLog ==
    \A p \in Procs :
        (Done(p) /\ pass[p].first_run)
            => /\ pass[p].logged = <<>>
               /\ (pass[p].patch # {} /\ pass[p].listening)
                    => pass[p].published
                         = <<Message(CloudOf(p), pass[p].patch)>>

C6_Witness ==
    \E p \in Procs :
        /\ Done(p) /\ pass[p].first_run
        /\ cloudcfg[CloudOf(p)].observation_logs_enabled
        /\ pass[p].patch # {} /\ pass[p].listening
        /\ pass[p].logged = <<>>
        /\ Len(pass[p].published) = 1

(* C8 - content-skip isolation. In a pass that ends normally the          *)
(* containers whose content fetch raised LibcloudError are neither saved   *)
(* nor returned and no document is created for them; the returned list is  *)
(* the other containers in order, each saved with its content attached.    *)
(* A pass never fails at a container whose content fetch raised.           *)
FetchedOk(item) == item.fetch = "ok"

C8_ContentSkipIsolation ==
    \A p \in Procs :
        /\ Done(p) =>
            LET kept == SelectSeq(pass[p].resp, FetchedOk)
                ret == pass[p].storage
            IN  /\ Len(ret) = Len(kept)
                /\ \A j \in DOMAIN ret :
                    /\ ret[j].name = kept[j].name
                    /\ ret[j].content = ContentOf(kept[j].name)
                    /\ \E r \in store :
                        /\ r.id = ret[j].id /\ r.name = ret[j].name
                        /\ r.content = ContentOf(kept[j].name)
                /\ \A i \in DOMAIN pass[p].resp :
                    FetchedOk(pass[p].resp[i]) <=> i \in pass[p].saved
                /\ pass[p].created \subseteq { ret[j].id : j \in DOMAIN ret }
        /\ (Failed(p) /\ pass[p].err \notin {"CloudUnavailableError",
                                             "LockTaken"})
            => FetchedOk(pass[p].resp[pass[p].idx])

C8_Witness ==
    \E p \in Procs :
        /\ Done(p)
        /\ Len(pass[p].resp) = 2
        /\ ~FetchedOk(pass[p].resp[1]) /\ FetchedOk(pass[p].resp[2])
        /\ pass[p].resp[1].name # pass[p].resp[2].name
        /\ Len(pass[p].storage) = 1
        /\ Lookup(CloudOf(p), pass[p].resp[1].name) = {}
        /\ Lookup(CloudOf(p), pass[p].resp[2].name) # {}

(* C9 - uniqueness. The collection never holds two documents with the     *)
(* same cloud and name.                                                    *)
C9_Unique ==
    \A r1, r2 \in store :
        (r1.cloud = r2.cloud /\ r1.name = r2.name) => r1 = r2

C9_Witness ==
    \E p \in Procs :
        /\ Done(p)
        /\ Len(pass[p].resp) = 2
        /\ pass[p].resp[1].name = pass[p].resp[2].name
        /\ pass[p].saved = {1, 2}
        /\ Cardinality(pass[p].created) = 1
        /\ Cardinality(Lookup(CloudOf(p), pass[p].resp[1].name)) = 1

(* C10 as claimed - only the failure of the provider list call leaves a   *)
(* pass as an exception.                                                   *)
C10_OnlyConnectivityErrors ==
    \A p \in Procs :
        Failed(p) => pass[p].err \in {"CloudUnavailableError", "LockTaken"}

(* C10 as amended - a content mismatch, a failing post-processing hook and *)
(* a non-serializable extra value never make the pass fail and a pass that *)
(* ends normally has processed every container; a pass fails only when the *)
(* provider list call raises (CloudUnavailableError) or when saving a      *)
(* container fails: a ValidationError leaves as BadRequestError, a         *)
(* NotUniqueError as ObjectStorageExistsError.                             *)
C10_ErrorsThatLeave ==
    \A p \in Procs :
        /\ Failed(p) =>
            \/ pass[p].err = "LockTaken"
            \/ pass[p].err = "CloudUnavailableError" /\ pass[p].resp = <<>>
            \/ /\ pass[p].idx \in DOMAIN pass[p].resp
               /\ LET item == pass[p].resp[pass[p].idx]
                  IN  /\ FetchedOk(item)
                      /\ \/ /\ pass[p].err = "BadRequestError"
                            /\ item.save = "ValidationError"
                         \/ /\ pass[p].err = "ObjectStorageExistsError"
                            /\ item.save = "NotUniqueError"
        /\ Done(p) => pass[p].idx = Len(pass[p].resp) + 1
        /\ (pass[p].pc \in {"complete", "diff", "done"})
            => \A i \in DOMAIN pass[p].resp : pass[p].resp[i].save = "ok"

C10_Witness ==
    \E p \in Procs :
        /\ Done(p)
        /\ Len(pass[p].resp) = 2
        /\ pass[p].resp[1].hook = "raise"
        /\ pass[p].saved = {1, 2}

C11_Publication ==
    \A p \in Procs :
        LET c == CloudOf(p)
            diff == JsonDiff(pass[p].cached, DictOfSeq(pass[p].storage))
        IN  /\ Done(p) =>
                /\ pass[p].patch = diff
                /\ (diff # {} /\ pass[p].listening) =>
                      pass[p].published =
                        <<[owner |-> OwnerOf(c),
                           routing_key |-> "patch_objectstorage",
                           data |-> [cloud_id |-> c, patch |-> diff]]>>
                /\ (diff = {} \/ ~pass[p].listening) =>
                      pass[p].published = <<>>
            /\ ~Done(p) => pass[p].published = <<>>

C11_Witness ==
    \E p \in Procs :
        /\ Done(p) /\ ~pass[p].first_run
        /\ pass[p].patch # {} /\ pass[p].listening
        /\ Len(pass[p].published) = 1
        /\ \E o \in pass[p].patch : o.op = "remove"

(* C12 - observation log. The step in which a pass computes its diff and   *)
(* returns appends exactly one observation-log entry (owner, cloud, kind,   *)
(* patch, before snapshot, after snapshot) when the diff is non-empty, the  *)
(* pass is not a first run and the cloud has observation_logs_enabled, and  *)
(* none otherwise; a pass that has not returned, a failed one included, has *)
(* appended none.                                                           *)
C12_ObservationLog ==
    [][\A p \in Procs :
          LET c == CloudOf(p)
              after == DictOfSeq(pass[p].storage)
              diff == JsonDiff(pass[p].cached, after)
          IN  /\ (pass[p].pc = "diff" /\ pass'[p].pc = "done") =>
                    pass'[p].logged =
                      IF /\ diff # {}
                         /\ ~pass[p].first_run
                         /\ cloudcfg[c].observation_logs_enabled
                      THEN <<[owner |-> OwnerOf(c), cloud |-> c,
                              kind |-> "objectstorage", patch |-> diff,
                              before |-> pass[p].cached, after |-> after]>>
                      ELSE <<>>
              /\ pass'[p].pc # "done" => pass'[p].logged = <<>>
              /\ (pass[p].pc = "done" /\ pass'[p].pc = "done") =>
                    pass'[p].logged = pass[p].logged
      ]_vars

C12_Witness ==
    \E p \in Procs :
        /\ Done(p) /\ ~pass[p].first_run
        /\ Len(pass[p].logged) = 1
        /\ pass[p].logged[1].patch = pass[p].patch
        /\ ~pass[p].listening /\ pass[p].published = <<>>

(* C13 - reconciliation never hard-deletes. No step removes a document of  *)
(* a cloud from the collection, whether the pass it belongs to succeeds or  *)
(* fails, except the call delete(expire=True) that removes the Cloud        *)
(* document itself.                                                         *)
C13_NeverHardDeletes ==
    [][\A c \in Clouds :
          \/ StoredIds(store, c) \subseteq StoredIds(store', c)
          \/ /\ cloudcfg[c].saved /\ ~cloudcfg'[c].saved
             /\ op'.name = "expire" /\ op'.cloud = c
      ]_vars

C13_Witness ==
    \E p \in Procs :
        /\ Done(p)
        /\ pass[p].resp = <<>>
        /\ \E r \in store :
              r.cloud = CloudOf(p) /\ r.missing_since # None
        /\ cloudcfg[CloudOf(p)].deleted # None

(* C14 - post-processing hook isolation. A container whose post-parse hook *)
(* raised is saved and returned like any other once the loop has moved past *)
(* it; the hook's exception never leaves the pass (a pass that fails at     *)
(* such a container fails because of its save); and a pass that returns has *)
(* processed every container of the response, those after the raising hook  *)
(* included.                                                                *)
C14_HookIsolation ==
    \A p \in Procs :
        /\ \A i \in DOMAIN pass[p].resp :
              (/\ i < pass[p].idx
               /\ pass[p].resp[i].hook = "raise"
               /\ FetchedOk(pass[p].resp[i]))
                => /\ i \in pass[p].saved
                   /\ \E j \in DOMAIN pass[p].storage :
                         pass[p].storage[j].name = pass[p].resp[i].name
                   /\ \E r \in store :
                         /\ r.cloud = CloudOf(p)
                         /\ r.name = pass[p].resp[i].name
                         /\ r.content = ContentOf(r.name)
        /\ (/\ Failed(p)
            /\ pass[p].idx \in DOMAIN pass[p].resp
            /\ pass[p].resp[pass[p].idx].hook = "raise")
              => LET item == pass[p].resp[pass[p].idx]
                 IN  \/ /\ pass[p].err = "BadRequestError"
                        /\ item.save = "ValidationError"
                     \/ /\ pass[p].err = "ObjectStorageExistsError"
                        /\ item.save = "NotUniqueError"
        /\ Done(p) => pass[p].idx = Len(pass[p].resp) + 1

C14_Witness ==
    \E p \in Procs :
        /\ Done(p)
        /\ Len(pass[p].resp) = 2
        /\ pass[p].resp[1].hook = "raise" /\ pass[p].resp[2].hook = "ok"
        /\ pass[p].resp[1].name # pass[p].resp[2].name
        /\ Len(pass[p].storage) = 2
        /\ pass[p].storage[1].name = pass[p].resp[1].name
        /\ Cardinality(pass[p].created) = 2

(* C15 as claimed - the cached listing holds every stored document of the  *)
(* cloud, those marked missing included. Read off the before snapshot,      *)
(* which is the cached listing taken at the start of a pass.                *)
C15_CachedIncludesMissing ==
    \A p \in Procs :
        pass[p].pc = "fetch" =>
            DOMAIN pass[p].cached
                = { Key(r) : r \in { x \in store : x.cloud = CloudOf(p) } }

(* C15 as amended - the cached listing holds exactly the stored documents  *)
(* of the cloud whose missing_since is null; a document marked missing is   *)
(* not in it.                                                               *)
C15_CachedExcludesMissing ==
    \A p \in Procs :
        pass[p].pc = "fetch" =>
            /\ pass[p].cached
                 = DictOfSet({ r \in store : /\ r.cloud = CloudOf(p)
                                             /\ r.missing_since = None })
            /\ \A r \in store :
                  (r.cloud = CloudOf(p) /\ r.missing_since # None)
                    => Key(r) \notin DOMAIN pass[p].cached

C15_Witness ==
    \E p \in Procs :
        /\ pass[p].pc = "fetch"
        /\ \E r \in store : r.cloud = CloudOf(p) /\ r.missing_since # None
        /\ DOMAIN pass[p].cached # {}

C17_AddFailsClean ==
    [][(/\ op' # op
        /\ op'.name = "add"
        /\ op'.probe \notin {"ok", "none"})
          => /\ op'.error \in ConnectionErrors
             /\ ~cloudcfg'[op'.cloud].saved
             /\ \A m \in machines' : m.cloud # op'.cloud
             /\ schedules' = schedules
      ]_vars

(* C18 - polling schedules. When add or enable has returned without error  *)
(* the cloud has exactly one polling schedule for every kind it supports:  *)
(* machines, locations, sizes and images, networks if it has a network      *)
(* controller, zones if it has a DNS controller and dns_enabled is true,    *)
(* volumes if it has a storage controller; the schedules of locations,      *)
(* sizes and images have the interval of 24 hours; and a cloud that had no  *)
(* schedule before add has schedules for the supported kinds only.          *)
C18_SchedulesExist ==
    [][(/\ op' # op
        /\ op'.name \in {"add", "enable"}
        /\ op'.error = "")
          => LET c == op'.cloud
                 dns == cloudcfg'[c].dns_enabled
             IN  /\ cloudcfg'[c].saved
                 /\ \A k \in Kinds :
                       Supports(c, k, dns) =>
                         \E s \in schedules' :
                           /\ s.cloud = c /\ s.kind = k
                           /\ \A x \in schedules' :
                                 (x.cloud = c /\ x.kind = k) => x = s
                 /\ \A s \in schedules' :
                       (s.cloud = c
                        /\ s.kind \in {"locations", "sizes", "images"})
                         => s.interval = 24 * 3600
                 /\ (op'.name = "add" /\ ScheduledKinds(schedules, c) = {})
                       => ScheduledKinds(schedules', c)
                            = { k \in Kinds : Supports(c, k, dns) }
      ]_vars

C18_Witness ==
    /\ op.name = "add" /\ op.error = "" /\ op.cloud = "c2"
    /\ cloudcfg["c2"].saved /\ cloudcfg["c2"].dns_enabled
    /\ ScheduledKinds(schedules, "c2")
         = {"machines", "zones", "locations", "sizes", "images"}
    /\ ScheduledKinds(schedules, "c1")
         = Kinds \ {"zones"}

(* C19 - soft delete. A call of delete without expire sets the deleted     *)
(* timestamp of the Cloud document and changes nothing else in it, queues   *)
(* set_missing_since for the cloud with a countdown of 30, and removes no   *)
(* Cloud, ObjectStorage or Machine document; a call of delete with expire   *)
(* removes the Cloud document and the Machine documents of the cloud.       *)
C19_SoftDelete ==
    [][(op' # op /\ op'.name \in {"delete", "expire"})
          => LET c == op'.cloud
             IN  /\ op'.name = "delete" =>
                       /\ cloudcfg' = [cloudcfg EXCEPT ![c].deleted = now]
                       /\ cloudcfg'[c].saved
                       /\ cloudcfg'[c].deleted # None
                       /\ store' = store
                       /\ machines' = machines
                       /\ [name |-> "set_missing_since", cloud |-> c,
                           eta |-> now + 30] \in queue'
                 /\ op'.name = "expire" =>
                       /\ cloudcfg[c].saved /\ ~cloudcfg'[c].saved
                       /\ \A m \in machines' : m.cloud # c
                       /\ \A d \in Clouds \ {c} : cloudcfg'[d] = cloudcfg[d]
      ]_vars

C19_Witness ==
    /\ op.name = "delete"
    /\ cloudcfg[op.cloud].saved /\ cloudcfg[op.cloud].deleted # None
    /\ \E r \in store : r.cloud = op.cloud
    /\ \E m \in machines : m.cloud = op.cloud
    /\ \E t \in queue : t.name = "set_missing_since" /\ t.cloud = op.cloud

(* C20 as claimed - in a successful pass the store writes come before the  *)
(* patch is computed and published, and the coordinator records the        *)
(* success of the pass only after the publisher has been notified: the      *)
(* step that computes and publishes the patch writes no document, and       *)
(* last_success changes only in a step of a pass that is at or past that    *)
(* step.                                                                    *)
C20_SuccessAfterPublish ==
    [][\A p \in Procs :
          /\ (pass[p].pc = "diff" /\ pass'[p].pc = "done")
                => store' = store
          /\ (/\ pass'[p] # pass[p]
              /\ task'[CloudOf(p)].last_success
                   # task[CloudOf(p)].last_success)
                => pass[p].pc = "diff"
      ]_vars

(* C20 as amended - in a successful pass the store writes come before the  *)
(* patch is computed and published, and the coordinator records the        *)
(* success of the pass when the guarded section is left, which is before    *)
(* the patch is computed and the publisher is notified: documents are       *)
(* written by the steps of the loop and of the missing marks only; the step *)
(* that leaves the guard records last_success; when the patch is about to   *)
(* be computed the guard is released, the success is on record and nothing  *)
(* has been published; the step that computes and publishes the patch       *)
(* writes neither a document nor the task.                                  *)
C20_WritesSuccessPublish ==
    [][/\ store' # store =>
            \E p \in Procs : pass[p].pc = "loop" /\ pass'[p] # pass[p]
       /\ \A p \in Procs :
            LET c == CloudOf(p)
            IN  /\ (pass[p].pc = "complete" /\ pass'[p].pc = "diff")
                      => /\ task'[c].last_success = now
                         /\ task'[c].lock = ""
                         /\ store' = store
                /\ pass[p].pc = "diff"
                      => /\ task[c].lock # p
                         /\ task[c].last_success # None
                         /\ task[c].last_success >= pass[p].t0
                         /\ pass[p].patch = {}
                         /\ pass[p].published = <<>>
                /\ (pass[p].pc = "diff" /\ pass'[p].pc = "done")
                      => (store' = store /\ task' = task)
      ]_vars

C20_Witness ==
    \E p \in Procs :
        /\ Done(p) /\ pass[p].first_run
        /\ Len(pass[p].published) = 1
        /\ pass[p].created # {}
        /\ task[CloudOf(p)].last_success # None
        /\ task[CloudOf(p)].last_success < now

(* C21 - missing-marking is a no-op for records already marked. In every    *)
(* step of a pass a document of the cloud that is absent from the provider  *)
(* response and has missing_since set keeps that timestamp, and a document  *)
(* gets a timestamp in missing_since only if it is a document of the cloud, *)
(* absent from the response, whose missing_since was null.                  *)
C21_MissingMarkNoOp ==
    [][\A p \in Procs :
          pass'[p] # pass[p] =>
            \A r \in store, r2 \in store' :
                r2.id = r.id =>
                  LET absent == /\ r.cloud = CloudOf(p)
                                /\ r.name \notin RespNames(p)
                  IN  /\ (absent /\ r.missing_since # None)
                          => r2.missing_since = r.missing_since
                      /\ (/\ r2.missing_since # None
                          /\ r2.missing_since # r.missing_since)
                          => (absent /\ r.missing_since = None)
      ]_vars

(* C22 - persistence failure policy. The step in which saving container k   *)
(* fails ends the pass with the typed error (BadRequestError for a          *)
(* validation error, ObjectStorageExistsError for a uniqueness error) and   *)
(* writes nothing; the containers saved before k are in the store with the  *)
(* values this pass wrote; the loop never moves past a container whose save *)
(* fails and a failed pass does nothing more, so the containers after k are *)
(* not processed; no step of the loop changes the missing_since of a        *)
(* document; and the failed pass has published and logged nothing.          *)
C22_PersistenceFailure ==
    [][\A p \in Procs :
          LET L == pass[p]
              L2 == pass'[p]
              c == CloudOf(p)
          IN  /\ (L.pc = "loop" /\ L2.pc = "failed") =>
                    LET k == L.idx
                        item == L.resp[k]
                    IN  /\ \/ /\ item.save = "ValidationError"
                              /\ L2.err = "BadRequestError"
                           \/ /\ item.save = "NotUniqueError"
                              /\ L2.err = "ObjectStorageExistsError"
                        /\ store' = store
                        /\ L2.idx = k /\ L2.saved = L.saved
                        /\ L.saved \subseteq 1..(k - 1)
                        /\ \A i \in L.saved :
                              LET last == CHOOSE j \in L.saved :
                                            /\ L.resp[j].name = L.resp[i].name
                                            /\ \A m \in L.saved :
                                                  L.resp[m].name
                                                    = L.resp[i].name => m <= j
                              IN  \E r \in store' :
                                    /\ r.cloud = c
                                    /\ r.name = L.resp[i].name
                                    /\ r.extra = EnsureJson(L.resp[last].extra)
                                    /\ r.content = ContentOf(r.name)
                        /\ L2.published = <<>> /\ L2.logged = <<>>
                        /\ L2.patch = {}
              /\ (L.pc = "loop" /\ L2.pc = "loop" /\ L2.idx > L.idx) =>
                    L.resp[L.idx].save = "ok"
              /\ (L.pc = "loop" /\ L2.pc \in {"loop", "failed"}) =>
                    \A r \in store, r2 \in store' :
                        r2.id = r.id => r2.missing_since = r.missing_since
              /\ (L.pc = "failed" /\ L2 # L) =>
                    (L2.pc = "guard" /\ store' = store)
      ]_vars

C22_Witness ==
    \E p \in Procs :
        /\ Failed(p)
        /\ pass[p].err = "ObjectStorageExistsError"
        /\ pass[p].idx = 2 /\ pass[p].saved = {1}
        /\ \E r \in store :
              /\ r.cloud = CloudOf(p)
              /\ r.name = pass[p].resp[1].name
              /\ r.id \in pass[p].created
        /\ \E r \in store :
              /\ r.cloud = CloudOf(p)
              /\ r.name \notin RespNames(p)
              /\ r.missing_since = None
        /\ DOMAIN pass[p].cached # {}

(* C23 - cross-cloud isolation. A step of a reconciliation pass for one     *)
(* cloud leaves the documents of every other cloud exactly as they were:    *)
(* none is created, modified, marked missing, cleared or removed, also      *)
(* while the other cloud holds a document of the same name and its own pass *)
(* is inside its guarded section.                                           *)
C23_CrossCloudIsolation ==
    [][\A p \in Procs :
          pass'[p] # pass[p] =>
            { r \in store' : r.cloud # CloudOf(p) }
              = { r \in store : r.cloud # CloudOf(p) }
      ]_vars

C23_Witness ==
    /\ InGuard("p1") /\ InGuard("p3")
    /\ pass["p1"].pc = "complete" /\ pass["p1"].resp = <<>>
    /\ \E r1, r2 \in store :
          /\ r1.cloud = "c1" /\ r2.cloud = "c2"
          /\ r1.name = r2.name
          /\ r1.missing_since # None
          /\ r2.missing_since = None

(* C24 - disable settles. Once the set_missing_since and                    *)
(* delete_periodic_tasks tasks that disable queued have run, and as long as *)
(* the cloud is not enabled again, every resource of the cloud has          *)
(* missing_since set and the cloud has no periodic task, whatever passes    *)
(* the poller still started after enabled was set to false.                 *)
C24_DisableSettles ==
    \A c \in Clouds :
        (cloudcfg[c].saved /\ ~cloudcfg[c].enabled /\ DelayedTasksRan(c))
            => (AllMissing(c) /\ NoPeriodicTask(c))

(* C25 - extra coercion. Every value in the extra map of every stored       *)
(* document is JSON-serializable; a container saved by the pass has, under  *)
(* each key, the value the provider gave if json.dumps accepts it and its   *)
(* string form if not, and the same for the value its post-parse hook       *)
(* supplied; and a value json.dumps rejects never makes the pass fail: the  *)
(* pass fails only when the provider list call does, and a pass that        *)
(* returns has saved every container.                                       *)
C25_ExtraCoercion ==
    /\ \A r \in store :
          \A k \in DOMAIN r.extra : ~JsonDumpsRaises(r.extra[k])
    /\ \A p \in Procs :
          /\ \A i \in pass[p].saved :
                LET item == pass[p].resp[i]
                    later == \E j \in pass[p].saved :
                                j > i /\ pass[p].resp[j].name = item.name
                IN  ~later =>
                      \E r \in store :
                        /\ r.cloud = CloudOf(p) /\ r.name = item.name
                        /\ \A k \in DOMAIN item.extra :
                              r.extra[k] = IF item.extra[k] = OBJ
                                           THEN "str(<object>)"
                                           ELSE item.extra[k]
                        /\ item.hook = "override"
                              => r.extra[HookKey] = "str(<object>)"
          /\ Failed(p) => pass[p].err = "CloudUnavailableError"
          /\ Done(p) => AllProcessed(p)

C25_Witness ==
    \E p \in Procs :
        /\ Done(p)
        /\ Len(pass[p].resp) = 2
        /\ pass[p].resp[1].extra["k"] = OBJ
        /\ pass[p].resp[2].hook = "override"
        /\ pass[p].resp[2].extra["k"] = "x1"
        /\ pass[p].resp[1].name # pass[p].resp[2].name
        /\ \E r \in store :
              /\ r.name = pass[p].resp[1].name
              /\ r.extra["k"] = "str(<object>)"
        /\ \E r \in store :
              /\ r.name = pass[p].resp[2].name
              /\ r.extra["k"] = "x1"
              /\ r.extra[HookKey] = "str(<object>)"

(* C26 - patch-stream continuity. When a successful pass of a cloud is      *)
(* followed by another with no other write in between, the before snapshot  *)
(* of the later pass equals the after snapshot of the earlier one: when the *)
(* later pass starts, the after snapshot of the earlier pass is the cached  *)
(* listing; nothing is written until the later pass takes its before        *)
(* snapshot, which is the cached listing; and the patch a pass publishes    *)
(* turns its before snapshot into its after snapshot. A subscriber that     *)
(* applies every patch in order therefore holds the cached listing.         *)
C26_PatchContinuity ==
    [][\A p \in Procs :
          LET c == CloudOf(p)
          IN  /\ (pass[p].pc = "done" /\ pass'[p].pc = "guard") =>
                    AfterSnapshot(p) = DictOfSet(list_cached_storage(c))
              /\ (pass[p].pc = "guard" /\ pass'[p].pc = "snapshot") =>
                    store' = store
              /\ (pass[p].pc = "snapshot" /\ pass'[p].pc = "fetch") =>
                    /\ store' = store
                    /\ pass'[p].cached = DictOfSet(list_cached_storage(c))
              /\ (pass[p].pc = "diff" /\ pass'[p].pc = "done") =>
                    ApplyPatch(pass[p].cached, pass'[p].patch)
                        = AfterSnapshot(p)
      ]_vars

(* C27 - the index is given persisted records only. Every document handed   *)
(* to owner.mapper.update at the end of a pass is in the store, saved by    *)
(* that pass; no document is handed over for a container that was skipped   *)
(* because its content fetch raised, unless the pass saved a document for   *)
(* another container of the same name.                                      *)
C27_IndexedArePersisted ==
    \A p \in Procs :
        pass[p].pc \in {"diff", "done"} =>
            \A j \in DOMAIN pass[p].indexed :
                LET x == pass[p].indexed[j]
                IN  /\ \E r \in store : r.id = x.id /\ r.name = x.name
                    /\ \E i \in pass[p].saved : pass[p].resp[i].name = x.name

(* C28 - a skipped container keeps its record. When a pass has returned,    *)
(* a document that was stored and not missing when the pass took its before *)
(* snapshot, and whose container the pass skipped because its content fetch *)
(* raised LibcloudError (and saved under no other item of the response), is *)
(* in the store as it was: missing_since null, extra and content the same.  *)
C28_SkipLeavesRecord ==
    \A p \in Procs :
        Done(p) =>
            \A i \in DOMAIN pass[p].resp :
                LET item == pass[p].resp[i]
                    saved == \E j \in pass[p].saved :
                                pass[p].resp[j].name = item.name
                IN  (item.fetch = "LibcloudError" /\ ~saved) =>
                      \A k \in DOMAIN pass[p].cached :
                          pass[p].cached[k].name = item.name =>
                            \E r \in store :
                                /\ r.id = pass[p].cached[k].id
                                /\ r.missing_since = None
                                /\ r.extra = pass[p].cached[k].extra
                                /\ r.content = pass[p].cached[k].content

(* C29 - disable followed by enable. A delayed task that disable queued and *)
(* that runs after the cloud was enabled again does no harm: the cloud      *)
(* stays enabled, it keeps a polling schedule for every kind it supports,   *)
(* its periodic task is not removed, and no resource of the cloud gets      *)
(* marked missing by the stale task.                                        *)
C29_StaleTasksHarmless ==
    [][\A c \in Clouds :
          (/\ cloudcfg[c].saved /\ cloudcfg[c].enabled
           /\ \E t \in queue :
                 /\ t \notin queue' /\ t.cloud = c
                 /\ t.name \in {"set_missing_since", "delete_periodic_tasks"})
            => /\ cloudcfg'[c].enabled
               /\ \A k \in Kinds :
                     Supports(c, k, cloudcfg'[c].dns_enabled) =>
                        \E x \in schedules' : x.cloud = c /\ x.kind = k
               /\ task'[c] = task[c]
               /\ \A r \in store, r2 \in store' :
                     (r2.id = r.id /\ r.cloud = c)
                        => r2.missing_since = r.missing_since
      ]_vars

(* C30 - patches are published in lock order. A pass does not publish its   *)
(* patch while another pass of the same cloud, which left the guard before  *)
(* this pass entered it, still has a non-empty patch to publish: the patch  *)
(* of the earlier holder of the guard goes out first.                       *)
C30_PublishInLockOrder ==
    [][\A p, q \in Procs :
          (/\ p # q /\ CloudOf(p) = CloudOf(q)
           /\ pass[p].pc = "diff" /\ pass'[p].pc = "done"
           /\ pass'[p].published # <<>>
           /\ pass[p].behind)
            => ~(/\ pass[q].pc = "diff" /\ ~pass[q].behind
                 /\ JsonDiff(pass[q].cached, AfterSnapshot(q)) # {})
      ]_vars

====
